---- MODULE Spec2Model ----
(***************************************************************************)
(* Model of the text-chunking core of the Local-LLM RAG pipeline           *)
(* (src/src/utils/textProcessing.js).                                      *)
(*                                                                         *)
(* A JavaScript string is a sequence of UTF-16 code units.  The model's    *)
(* alphabet has two ordinary letters, the line feed (which the regular     *)
(* expression atom `.` does not match), and the two halves of a surrogate  *)
(* pair (one character outside the BMP occupies a high unit followed by a  *)
(* low unit).                                                              *)
(*                                                                         *)
(* Spec      runs one call of chunkText step by step.                      *)
(* SpecDocs  runs one call of chunkDocuments, one document per step.       *)
(* SpecText  runs one call of formatContext, buildRAGPrompt or cleanText.  *)
(* SpecCalls runs one call of chunkText or of one of those three.          *)
(* SpecStore runs the vector store (src/src/services/vectorStore.js)       *)
(*           under any sequence of calls and process restarts.             *)
(* SpecApp   runs the demo pipeline (src/src/index.js) or the HTTP server  *)
(*           (src/src/query.js) on top of the store.                       *)
(* SpecEmbed runs one call of generateEmbeddings (ollamaService.js).       *)
(* SpecAdd   runs up to two calls of addDocuments await by await, so that  *)
(*           one call can run while the other is suspended.                *)
(***************************************************************************)
EXTENDS Integers, Sequences, FiniteSets, TLC

VARIABLES
    text, chunkSize, overlap,   \* the arguments of chunkText
    textType,                   \* typeof text; text is <<>> for a non-string
    pc,                         \* position inside chunkText
    matches,                    \* text.match(pattern) || []
    textArray,                  \* Array.from(text)
    i,                          \* the loop position
    chunks,                     \* the list the loop builds
    returned,                   \* the value chunkText returned
    outcome,                    \* "running" | "returned" | "SyntaxError"
    documents,                  \* the argument of chunkDocuments
    config,                     \* config.rag as loaded from the environment
    dpc,                        \* position inside chunkDocuments
    docIdx,                     \* index of the next document of the for-of loop
    result,                     \* the list chunkDocuments builds and returns
    fn,                         \* the text function called in SpecText
    fnArgs,                     \* its arguments
    fnRet,                      \* the string it returned
    fnOutcome,                  \* "pending" | "returned" | "TypeError"
    db,                         \* vectorStore.js: the connection, or "null"
    table,                      \* vectorStore.js: the table handle, or "null"
    disk,                       \* the documents table in the database directory
    lastRes,                    \* the store call made last and how it ended
    program,                    \* "runRAG" (index.js) | "server" (query.js)
    apc,                        \* where the program is
    health,                     \* what checkOllamaHealth returned
    exitCode,                   \* the status the process ended with, -1 while it runs
    isInitialized,              \* query.js line 14
    listening,                  \* app.listen has been called
    connectTried,               \* lancedb.connect has been called
    embedRequested,             \* an embedding request has been made
    genRequested,               \* a generation request has been made
    qIdx,                       \* the queries runRAG has gone through
    asked,                      \* the query handled last and the calls made for it
    sent,                       \* the responses sent to the request handled last
    stored,                     \* the documents successful addDocuments calls have
                                \* stored since clearVectorStore ran last
    reported,                   \* the query errors runRAG has logged
    healthSent,                 \* the initialized field of the last /health response
    calls,                      \* the addDocuments calls under way
    creates                     \* the createTable calls that have completed

chunkVars == <<text, textType, chunkSize, overlap, pc, matches, textArray, i,
               chunks, returned, outcome>>
docVars   == <<documents, config, dpc, docIdx, result>>
fnVars    == <<fn, fnArgs, fnRet, fnOutcome>>
storeVars == <<db, table, disk, lastRes>>
\* the variables chunkText and chunkDocuments have no part in
appVars   == <<program, apc, health, exitCode, isInitialized, listening,
               connectTried, embedRequested, genRequested, qIdx, asked, sent>>
laterVars == <<stored, reported, healthSent, calls, creates>>
extVars   == <<fnVars, storeVars, appVars, laterVars>>
vars      == <<text, textType, chunkSize, overlap, pc, matches, textArray, i,
               chunks, returned, outcome, documents, config, dpc, docIdx,
               result, fn, fnArgs, fnRet, fnOutcome, db, table, disk, lastRes,
               program, apc, health, exitCode, isInitialized, listening,
               connectTried, embedRequested, genRequested, qIdx, asked, sent,
               stored, reported, healthSent, calls, creates>>

\* a JavaScript value: a string, undefined, null or a number
JsString(str) == [type |-> "string", str |-> str, num |-> 0]
JsNumber(n)   == [type |-> "number", str |-> "", num |-> n]
JsUndefined   == [type |-> "undefined", str |-> "", num |-> 0]
JsNull        == [type |-> "null", str |-> "", num |-> 0]

\* no text function is being called
IdleFn ==
    /\ fn = "none"
    /\ fnArgs = <<>>
    /\ fnRet = ""
    /\ fnOutcome = "idle"

\* how a store call ended: whether it raised, the message it raised or
\* returned as {error}, the documentCount or the number of items it
\* returned (-1 when it returned neither), and whether it asked the
\* embedding service for a vector
Res(op, raised, error, count, embedded) ==
    [op |-> op, raised |-> raised, error |-> error, count |-> count,
     embedded |-> embedded]

\* a process that has just started: lines 5-6 of vectorStore.js
FreshModule == db = "null" /\ table = "null"

\* no table in the database directory
NoTable == [exists |-> FALSE, rows |-> <<>>]

\* the store is not used
IdleStore ==
    /\ FreshModule
    /\ disk = NoTable
    /\ lastRes = Res("none", FALSE, "", -1, FALSE)

\* the calls made for a query: search, the number of items it returned
\* (-1 when it returned none), formatContext, buildRAGPrompt and
\* generateResponse
QueryRecord(query, searched, found, fmt, prompt, gen) ==
    [query |-> query, searched |-> searched, found |-> found, fmt |-> fmt,
     prompt |-> prompt, gen |-> gen]

NoQuery == QueryRecord(JsUndefined, FALSE, -1, FALSE, FALSE, FALSE)

\* no program runs
IdleApp ==
    /\ program = "none"
    /\ apc = "idle"
    /\ health = "unknown"
    /\ exitCode = -1
    /\ isInitialized = FALSE
    /\ listening = FALSE
    /\ connectTried = FALSE
    /\ embedRequested = FALSE
    /\ genRequested = FALSE
    /\ qIdx = 0
    /\ asked = NoQuery
    /\ sent = <<>>

\* a call of addDocuments: where it is, its arguments, the loop index of
\* line 56 and the rows it is writing
NoCall ==
    [pc |-> "idle", documents |-> <<>>, batchSize |-> 0, i |-> 0, data |-> <<>>]

\* nothing is recorded and no addDocuments call is under way
IdleLater ==
    /\ stored = <<>>
    /\ reported = 0
    /\ healthSent = "none"
    /\ calls = [c \in 1..2 |-> NoCall]
    /\ creates = 0

\* the variables the text functions have no part in
IdleRest == IdleStore /\ IdleApp /\ IdleLater

IdleExt == IdleFn /\ IdleRest

----------------------------------------------------------------------------
(* Bounds of the model *)

\* longest text handed to chunkText in Spec
MaxLen == 4
\* largest chunkSize / overlap handed to chunkText in Spec
MaxSize == 3
\* a loop that never ends is followed until its list holds this many chunks
MaxChunks == 6
\* ... or until its position has run this far below zero
MaxBack == 4
\* longest document list handed to chunkDocuments in SpecDocs
MaxDocs == 2
\* longest list of retrieved items handed to formatContext
MaxItems == 2
\* longest string handed to cleanText
MaxClean == 4
\* most rows the documents table holds
MaxRows == 3
\* longest document list handed to addDocuments
MaxAdd == 2
\* longest list of texts handed to generateEmbeddings
MaxTexts == 11
\* longest document list of the first of two addDocuments calls
MaxDocuments == 6

----------------------------------------------------------------------------
(* Strings *)

LF == "\n"
HiSurrogate == "hi"
LoSurrogate == "lo"
Units == {"a", "b", LF, HiSurrogate, LoSurrogate}

Texts(n) == UNION {[1..k -> Units] : k \in 0..n}

Min2(x, y) == IF x <= y THEN x ELSE y
Max2(x, y) == IF x >= y THEN x ELSE y

\* `.` without the s flag matches any code unit but a line terminator
IsLineTerminator(u) == u = LF

\* One match of /.{1,S}/g from lastIndex p (0-based) on, and the matches
\* after it: the regex skips the units `.` cannot match, then takes
\* greedily up to S units that it can.
RECURSIVE MatchFrom(_, _, _)
MatchFrom(t, S, p) ==
    LET n == Len(t) IN
    IF \A q \in (p + 1)..n : IsLineTerminator(t[q]) THEN <<>>
    ELSE LET s  == CHOOSE q \in (p + 1)..n :
                      /\ ~IsLineTerminator(t[q])
                      /\ \A r \in (p + 1)..(q - 1) : IsLineTerminator(t[r])
             hi == Min2(s + S - 1, n)
             e  == IF \A q \in s..hi : ~IsLineTerminator(t[q]) THEN hi
                   ELSE (CHOOSE q \in s..hi :
                            /\ IsLineTerminator(t[q])
                            /\ \A r \in s..(q - 1) : ~IsLineTerminator(t[r])) - 1
         IN <<SubSeq(t, s, e)>> \o MatchFrom(t, S, e)

\* text.match(new RegExp(`.{1,${chunkSize}}`, 'g')) || [] for chunkSize /= 0.
\* With a negative chunkSize the braces are no quantifier: the pattern is
\* `.` followed by the literal text "{1,-n}", which no text over Units holds.
RegexMatches(t, S) == IF S >= 1 THEN MatchFrom(t, S, 0) ELSE <<>>

\* new RegExp('.{1,0}') throws: numbers out of order in {} quantifier
PatternThrows(S) == S = 0

\* Array.from(text): the string iterator yields code points, a high unit
\* followed by a low unit being one element.  A low unit that follows a
\* high unit is the second half of that element and starts none.  The
\* range lo..hi is split in halves to keep the evaluation shallow.
StartsCodePoint(t, p) ==
    ~(p > 1 /\ t[p] = LoSurrogate /\ t[p - 1] = HiSurrogate)

CodePointAt(t, p) ==
    IF t[p] = HiSurrogate /\ p < Len(t) /\ t[p + 1] = LoSurrogate
    THEN SubSeq(t, p, p + 1)
    ELSE SubSeq(t, p, p)

RECURSIVE ArrayFromRange(_, _, _)
ArrayFromRange(t, lo, hi) ==
    IF lo > hi THEN <<>>
    ELSE IF lo = hi
         THEN IF StartsCodePoint(t, lo) THEN <<CodePointAt(t, lo)>> ELSE <<>>
         ELSE LET mid == (lo + hi) \div 2
              IN ArrayFromRange(t, lo, mid) \o ArrayFromRange(t, mid + 1, hi)

ArrayFrom(t) == ArrayFromRange(t, 1, Len(t))

\* Array.prototype.slice(start, end), negative indices counting from the end
Slice(arr, start, end) ==
    LET n == Len(arr)
        k == IF start < 0 THEN Max2(n + start, 0) ELSE Min2(start, n)
        f == IF end < 0 THEN Max2(n + end, 0) ELSE Min2(end, n)
    IN SubSeq(arr, k + 1, f)

\* Array.prototype.join(''), the range lo..hi split in halves
RECURSIVE JoinRange(_, _, _)
JoinRange(arr, lo, hi) ==
    IF lo > hi THEN <<>>
    ELSE IF lo = hi THEN arr[lo]
         ELSE LET mid == (lo + hi) \div 2
              IN JoinRange(arr, lo, mid) \o JoinRange(arr, mid + 1, hi)

Join(arr) == JoinRange(arr, 1, Len(arr))

----------------------------------------------------------------------------
(* chunkText, step by step *)

\* line 28: i += (chunkSize - overlap)
Advance(pos, S, O) == pos + (S - O)

\* line 29: Math.min(i + chunkSize, textArray.length)
SliceEnd(pos, S, arr) == Min2(pos + S, Len(arr))

\* line 30: textArray.slice(i, end).join('')
ChunkAt(arr, pos, S) == Join(Slice(arr, pos, SliceEnd(pos, S, arr)))

\* line 20: the regex result is returned as it is
TakesRegexPath(O, m) == O = 0 \/ Len(m) = 1

\* line 11: !text || typeof text !== 'string' || text.length === 0
NothingToChunk(type, t) == type /= "string" \/ t = <<>>

\* lines 11-13
ReturnEmpty ==
    /\ pc = "start"
    /\ NothingToChunk(textType, text)
    /\ returned' = <<>>
    /\ outcome' = "returned"
    /\ pc' = "done"
    /\ UNCHANGED <<text, textType, chunkSize, overlap, matches, textArray, i, chunks>>
    /\ UNCHANGED docVars
    /\ UNCHANGED extVars

\* line 17, the RegExp constructor rejecting the pattern
PatternError ==
    /\ pc = "start"
    /\ ~NothingToChunk(textType, text)
    /\ PatternThrows(chunkSize)
    /\ outcome' = "SyntaxError"
    /\ pc' = "done"
    /\ UNCHANGED <<text, textType, chunkSize, overlap, matches, textArray, i, chunks, returned>>
    /\ UNCHANGED docVars
    /\ UNCHANGED extVars

\* lines 17-18
Match ==
    /\ pc = "start"
    /\ ~NothingToChunk(textType, text)
    /\ ~PatternThrows(chunkSize)
    /\ matches' = RegexMatches(text, chunkSize)
    /\ pc' = "matched"
    /\ UNCHANGED <<text, textType, chunkSize, overlap, textArray, i, chunks, returned, outcome>>
    /\ UNCHANGED docVars
    /\ UNCHANGED extVars

\* lines 20-22
ReturnMatches ==
    /\ pc = "matched"
    /\ TakesRegexPath(overlap, matches)
    /\ returned' = matches
    /\ outcome' = "returned"
    /\ pc' = "done"
    /\ UNCHANGED <<text, textType, chunkSize, overlap, matches, textArray, i, chunks>>
    /\ UNCHANGED docVars
    /\ UNCHANGED extVars

\* lines 25-28, up to the loop's initialisation
EnterLoop ==
    /\ pc = "matched"
    /\ ~TakesRegexPath(overlap, matches)
    /\ chunks' = <<>>
    /\ textArray' = ArrayFrom(text)
    /\ i' = 0
    /\ pc' = "loop"
    /\ UNCHANGED <<text, textType, chunkSize, overlap, matches, returned, outcome>>
    /\ UNCHANGED docVars
    /\ UNCHANGED extVars

\* lines 28-37: the loop test and one pass of the body
LoopStep ==
    /\ pc = "loop"
    /\ Len(chunks) < MaxChunks
    /\ i > -MaxBack
    /\ IF i < Len(textArray)
       THEN LET end   == SliceEnd(i, chunkSize, textArray)
                chunk == ChunkAt(textArray, i, chunkSize)
            IN /\ chunks' = IF Len(chunk) > 0 THEN Append(chunks, chunk) ELSE chunks
               /\ IF end = Len(textArray)
                  THEN pc' = "after" /\ i' = i
                  ELSE pc' = "loop" /\ i' = Advance(i, chunkSize, overlap)
       ELSE pc' = "after" /\ UNCHANGED <<i, chunks>>
    /\ UNCHANGED <<text, textType, chunkSize, overlap, matches, textArray, returned, outcome>>
    /\ UNCHANGED docVars
    /\ UNCHANGED extVars

\* line 39
ReturnChunks ==
    /\ pc = "after"
    /\ returned' = IF Len(chunks) > 0 THEN chunks ELSE matches
    /\ outcome' = "returned"
    /\ pc' = "done"
    /\ UNCHANGED <<text, textType, chunkSize, overlap, matches, textArray, i, chunks>>
    /\ UNCHANGED docVars
    /\ UNCHANGED extVars

----------------------------------------------------------------------------
(* chunkText as a function, for the calls chunkDocuments makes *)

DefaultChunkSize == 300
DefaultOverlap == 30

\* lines 28-37 run to the end; the loop ends when S > O >= 0
RECURSIVE LoopFrom(_, _, _, _, _)
LoopFrom(arr, S, O, pos, acc) ==
    IF pos < Len(arr)
    THEN LET end   == SliceEnd(pos, S, arr)
             chunk == ChunkAt(arr, pos, S)
             cs    == IF Len(chunk) > 0 THEN Append(acc, chunk) ELSE acc
         IN IF end = Len(arr) THEN cs
            ELSE LoopFrom(arr, S, O, Advance(pos, S, O), cs)
    ELSE acc

\* lines 10-40, for a configuration whose pattern compiles and whose loop
\* ends
ChunkText(t, S, O) ==
    IF NothingToChunk("string", t) THEN <<>>
    ELSE LET m == RegexMatches(t, S)
         IN IF TakesRegexPath(O, m) THEN m
            ELSE LET cs == LoopFrom(ArrayFrom(t), S, O, 0, <<>>)
                 IN IF Len(cs) > 0 THEN cs ELSE m

----------------------------------------------------------------------------
(* chunkDocuments *)

\* line 51: chunkText(doc.content), the size and the overlap left to their
\* defaults
DocChunks(doc) == ChunkText(doc.content, DefaultChunkSize, DefaultOverlap)

\* a record numbered from 1
ChunkRecordOneBased(doc, idx, chunk) ==
    [id        |-> doc.id \o "_" \o ToString(idx + 1),
     content   |-> chunk,
     sourceDoc |-> doc.id,
     chunkIdx  |-> idx + 1]

\* lines 54-59
ChunkRecord(doc, idx, chunk) ==
    [id        |-> doc.id \o "_" \o ToString(idx),
     content   |-> chunk,
     sourceDoc |-> doc.id,
     chunkIdx  |-> idx]

\* result.unshift(...) in place of push
PushFront(list, rec) == <<rec>> \o list

\* line 54: result.push(...)
Push(list, rec) == Append(list, rec)

\* lines 53-60: the inner loop from index k on
RECURSIVE PushChunks(_, _, _, _)
PushChunks(list, doc, cs, k) ==
    IF k < Len(cs)
    THEN PushChunks(Push(list, ChunkRecord(doc, k, cs[k + 1])), doc, cs, k + 1)
    ELSE list

\* lines 50-61: one pass of the for-of loop
NextDocument ==
    /\ dpc = "loop"
    /\ docIdx <= Len(documents)
    /\ result' = PushChunks(result, documents[docIdx],
                            DocChunks(documents[docIdx]), 0)
    /\ docIdx' = docIdx + 1
    /\ UNCHANGED <<documents, config, dpc>>
    /\ UNCHANGED chunkVars
    /\ UNCHANGED extVars

\* line 63
ReturnResult ==
    /\ dpc = "loop"
    /\ docIdx > Len(documents)
    /\ dpc' = "done"
    /\ UNCHANGED <<documents, config, docIdx, result>>
    /\ UNCHANGED chunkVars
    /\ UNCHANGED extVars

\* a string of n units u
Rep(u, n) == [k \in 1..n |-> u]

\* the contents documents are drawn from: texts around the default window
\* (300) and its advance (270), and short texts with a line break
DocContents ==
    {Rep("a", n) : n \in {0, 2, DefaultChunkSize + 1, 700}}
        \cup {<<"a", LF, "b">>, <<"b">>}

DocIds == {"a", "b", "c"}

Documents == [id : DocIds, content : DocContents]

\* lists of documents with ids unique to the caller
DocumentLists(n) ==
    {ds \in UNION {[1..k -> Documents] : k \in 0..n} :
        \A p, q \in 1..Len(ds) : p /= q => ds[p].id /= ds[q].id}

\* config.rag: CHUNK_SIZE and CHUNK_OVERLAP unset (300, 30), set as the
\* README shows (512, 50), or set smaller
ConfigChoices ==
    {[chunkSize |-> 300, chunkOverlap |-> 30],
     [chunkSize |-> 512, chunkOverlap |-> 50],
     [chunkSize |-> 100, chunkOverlap |-> 10]}

IdleChunkText ==
    /\ text = <<>>
    /\ textType = "string"
    /\ chunkSize = DefaultChunkSize
    /\ overlap = DefaultOverlap
    /\ pc = "idle"
    /\ matches = <<>>
    /\ textArray = <<>>
    /\ i = 0
    /\ chunks = <<>>
    /\ returned = <<>>
    /\ outcome = "running"

InitDocs ==
    /\ documents \in DocumentLists(MaxDocs)
    /\ config \in ConfigChoices
    /\ dpc = "loop"
    /\ docIdx = 1
    /\ result = <<>>
    /\ IdleChunkText
    /\ IdleExt

NextDocs ==
    \/ NextDocument
    \/ ReturnResult

SpecDocs == InitDocs /\ [][NextDocs]_vars

IdleDocs ==
    /\ documents = <<>>
    /\ config = [chunkSize |-> 300, chunkOverlap |-> 30]
    /\ dpc = "idle"
    /\ docIdx = 0
    /\ result = <<>>

----------------------------------------------------------------------------
(* formatContext, buildRAGPrompt, cleanText.  Their strings are strings of *)
(* the model; the character at place p of s is SubSeq(s, p, p).            *)

\* !value
Falsy(v) ==
    \/ v.type \in {"undefined", "null"}
    \/ v.type = "string" /\ v.str = ""
    \/ v.type = "number" /\ v.num = 0

\* the string a template literal puts in place of ${value}
TemplateString(v) ==
    CASE v.type = "string"    -> v.str
      [] v.type = "undefined" -> "undefined"
      [] v.type = "null"      -> "null"
      [] v.type = "number"    -> ToString(v.num)

\* the blocks numbered from 0
BlockNumberZeroBased(index) == index

\* line 75: `[Document ${index + 1}]`, index counted from 0
BlockNumber(index) == index + 1

\* line 75: doc.sourceDoc || 'unknown'
SourceLabel(doc) ==
    IF Falsy(doc.sourceDoc) THEN "unknown" ELSE TemplateString(doc.sourceDoc)

\* line 75
ContextBlock(doc, index) ==
    "[Document " \o ToString(BlockNumber(index)) \o "]\n" \o doc.content
        \o "\n[Source: " \o SourceLabel(doc) \o "]"

\* line 77: the separator of join
BlockSeparator == "\n\n"

\* Array.prototype.join(separator)
RECURSIVE JoinWith(_, _, _)
JoinWith(blocks, sep, k) ==
    IF k > Len(blocks) THEN ""
    ELSE IF k = Len(blocks) THEN blocks[k]
    ELSE blocks[k] \o sep \o JoinWith(blocks, sep, k + 1)

\* lines 71-78
FormatContext(docs) ==
    JoinWith([k \in 1..Len(docs) |-> ContextBlock(docs[k], k - 1)],
             BlockSeparator, 1)

\* line 87
Instruction ==
    "You are a helpful assistant. Use the following context to answer the user's question. If you don't know the answer based on the context, say so."

\* line 94
AnswerCue == "Answer:"

\* the question put before the context
BuildRAGPromptQuestionFirst(query, context) ==
    Instruction \o "\n\nQuestion: " \o TemplateString(query)
        \o "\n\nContext:\n" \o TemplateString(context) \o "\n\n" \o AnswerCue

\* lines 87-94
BuildRAGPrompt(query, context) ==
    Instruction \o "\n\nContext:\n" \o TemplateString(context)
        \o "\n\nQuestion: " \o TemplateString(query) \o "\n\n" \o AnswerCue

CharAt(s, p) == SubSeq(s, p, p)

\* the characters \s matches and trim removes
IsWhitespace(c) == c \in {" ", "\n", "\t"}

\* the last place of the run of whitespace that holds place p
RunEnd(s, p) ==
    CHOOSE q \in p..Len(s) :
        /\ \A r \in p..q : IsWhitespace(CharAt(s, r))
        /\ q < Len(s) => ~IsWhitespace(CharAt(s, q + 1))

\* line 105: .replace(/\s+/g, ' ')
RECURSIVE CollapseFrom(_, _)
CollapseFrom(s, p) ==
    IF p > Len(s) THEN ""
    ELSE IF IsWhitespace(CharAt(s, p))
         THEN " " \o CollapseFrom(s, RunEnd(s, p) + 1)
         ELSE CharAt(s, p) \o CollapseFrom(s, p + 1)

\* .replace(/\s/g, ' '): every whitespace character on its own
RECURSIVE CollapseEachFrom(_, _)
CollapseEachFrom(s, p) ==
    IF p > Len(s) THEN ""
    ELSE (IF IsWhitespace(CharAt(s, p)) THEN " " ELSE CharAt(s, p))
             \o CollapseEachFrom(s, p + 1)

CollapseWhitespaceEach(s) == CollapseEachFrom(s, 1)

CollapseWhitespace(s) == CollapseFrom(s, 1)

\* line 106: .replace(/\n\s*\n/g, '\n'); \s* is greedy, so a match runs
\* from a line feed to the last line feed of its run of whitespace
RECURSIVE CollapseBlankFrom(_, _)
CollapseBlankFrom(s, p) ==
    IF p > Len(s) THEN ""
    ELSE LET feeds == {q \in (p + 1)..Len(s) :
                          /\ CharAt(s, q) = "\n"
                          /\ \A r \in p..q : IsWhitespace(CharAt(s, r))}
         IN IF CharAt(s, p) = "\n" /\ feeds /= {}
            THEN "\n" \o CollapseBlankFrom(s,
                     (CHOOSE q \in feeds : \A r \in feeds : r <= q) + 1)
            ELSE CharAt(s, p) \o CollapseBlankFrom(s, p + 1)

CollapseBlankLines(s) == CollapseBlankFrom(s, 1)

\* line 107: .trim()
Trim(s) ==
    LET solid == {p \in 1..Len(s) : ~IsWhitespace(CharAt(s, p))}
    IN IF solid = {} THEN ""
       ELSE SubSeq(s, CHOOSE p \in solid : \A r \in solid : p <= r,
                      CHOOSE p \in solid : \A r \in solid : r <= p)

\* if (text === '') return ''
ReturnsEmptyStringForEmptyOnly(v) == v.type = "string" /\ v.str = ""

\* line 103: if (!text) return ''
ReturnsEmptyString(v) == Falsy(v)

\* lines 104-107, for a string
CleanString(s) == Trim(CollapseBlankLines(CollapseWhitespace(s)))

\* lines 71-78
CallFormatContext ==
    /\ fn = "formatContext"
    /\ fnOutcome = "pending"
    /\ fnRet' = FormatContext(fnArgs.items)
    /\ fnOutcome' = "returned"
    /\ UNCHANGED <<fn, fnArgs>>
    /\ UNCHANGED <<chunkVars, docVars, storeVars, appVars, laterVars>>

\* lines 86-95
CallBuildRAGPrompt ==
    /\ fn = "buildRAGPrompt"
    /\ fnOutcome = "pending"
    /\ fnRet' = BuildRAGPrompt(fnArgs.query, fnArgs.context)
    /\ fnOutcome' = "returned"
    /\ UNCHANGED <<fn, fnArgs>>
    /\ UNCHANGED <<chunkVars, docVars, storeVars, appVars, laterVars>>

\* lines 102-108; a value that is neither falsy nor a string has no
\* replace method, and the call of it throws a TypeError
CallCleanText ==
    /\ fn = "cleanText"
    /\ fnOutcome = "pending"
    /\ IF ReturnsEmptyString(fnArgs.text)
       THEN fnRet' = "" /\ fnOutcome' = "returned"
       ELSE IF fnArgs.text.type = "string"
            THEN fnRet' = CleanString(fnArgs.text.str) /\ fnOutcome' = "returned"
            ELSE fnRet' = fnRet /\ fnOutcome' = "TypeError"
    /\ UNCHANGED <<fn, fnArgs>>
    /\ UNCHANGED <<chunkVars, docVars, storeVars, appVars, laterVars>>

\* the retrieved items: a content, and a source that is an id, the empty
\* string addDocuments stores for a document without one, or missing
ItemContents == {"hi", "a\n\nb"}
ItemSources == {JsString("d1"), JsString(""), JsUndefined}
Items == [content : ItemContents, sourceDoc : ItemSources]
ItemLists(n) == UNION {[1..k -> Items] : k \in 0..n}

\* the queries and contexts handed to buildRAGPrompt
Queries == {JsString("Q"), JsString(""), JsString("Answer:"),
            JsUndefined, JsNumber(42)}
Contexts == {JsString("C"), JsString(""), JsString("\n\nQuestion: x"),
             JsString("[Document 1]\nhi\n[Source: d1]"), JsUndefined, JsNull}

\* the strings of at most n characters over a letter and the whitespace
RECURSIVE StringsUpTo(_)
StringsUpTo(n) ==
    IF n = 0 THEN {""}
    ELSE LET shorter == StringsUpTo(n - 1)
         IN shorter \cup {str \o c : str \in shorter, c \in {"a", " ", "\n", "\t"}}

\* the values handed to cleanText
CleanInputs ==
    {JsString(str) : str \in StringsUpTo(MaxClean)}
        \cup {JsUndefined, JsNull, JsNumber(0), JsNumber(42)}

\* a call of one of the three functions with its arguments
InitFn ==
    /\ \/ fn = "formatContext" /\ fnArgs \in [items : ItemLists(MaxItems)]
       \/ fn = "buildRAGPrompt" /\ fnArgs \in [query : Queries, context : Contexts]
       \/ fn = "cleanText" /\ fnArgs \in [text : CleanInputs]
    /\ fnRet = ""
    /\ fnOutcome = "pending"

\* typeof of the values chunkText may be handed in place of a string
NonStringTypes == {"undefined", "number", "object"}

\* a call of chunkText with its arguments
InitChunkText ==
    /\ \/ textType = "string" /\ text \in Texts(MaxLen)
       \/ textType \in NonStringTypes /\ text = <<>>
    /\ chunkSize \in -1..MaxSize
    /\ overlap \in 0..MaxSize
    /\ pc = "start"
    /\ matches = <<>>
    /\ textArray = <<>>
    /\ i = 0
    /\ chunks = <<>>
    /\ returned = <<>>
    /\ outcome = "running"
    /\ IdleDocs

Init == InitChunkText /\ IdleExt

Next ==
    \/ ReturnEmpty
    \/ PatternError
    \/ Match
    \/ ReturnMatches
    \/ EnterLoop
    \/ LoopStep
    \/ ReturnChunks

Spec == Init /\ [][Next]_vars

InitText == InitFn /\ IdleChunkText /\ IdleDocs /\ IdleRest

NextText ==
    \/ CallFormatContext
    \/ CallBuildRAGPrompt
    \/ CallCleanText

SpecText == InitText /\ [][NextText]_vars

InitCalls == Init \/ InitText

NextCalls ==
    \/ ReturnEmpty
    \/ PatternError
    \/ Match
    \/ ReturnMatches
    \/ EnterLoop
    \/ LoopStep
    \/ ReturnChunks
    \/ CallFormatContext
    \/ CallBuildRAGPrompt
    \/ CallCleanText

SpecCalls == InitCalls /\ [][NextCalls]_vars

----------------------------------------------------------------------------
(* The vector store: src/src/services/vectorStore.js.  Each call runs from *)
(* its first line to its return; the calls of one process follow one       *)
(* another.  LanceDB and the embedding service are outside the repository: *)
(* a call to them succeeds or fails, one or the other.                     *)

NotInitialized == "Vector store not initialized. Call initializeVectorStore first."
NoDocuments == "No documents in vector store. Please ingest documents first."

\* config.rag.topK with TOP_K_RESULTS unset
TopK == 5

\* the ids of the documents handed to addDocuments
StoreIds == {"d1", "d2"}

\* getTable without the check of line 27
GetTableUnguarded(conn, handle, dsk) ==
    IF handle = "null"
    THEN [raised |-> FALSE,
          table |-> IF conn /= "null" /\ dsk.exists THEN "handle" ELSE "null"]
    ELSE [raised |-> FALSE, table |-> handle]

\* getTable (lines 26-41): raises without a connection; opens the table
\* when the module holds no handle and the table exists, and leaves the
\* handle null when openTable fails
GetTable(conn, handle, dsk) ==
    IF conn = "null" THEN [raised |-> TRUE, table |-> handle]
    ELSE IF handle = "null"
         THEN [raised |-> FALSE,
               table |-> IF dsk.exists THEN "handle" ELSE "null"]
         ELSE [raised |-> FALSE, table |-> handle]

\* lines 12-20
DoInitializeVectorStore(ok) ==
    /\ IF ok
       THEN db' = "conn" /\ lastRes' = Res("initializeVectorStore", FALSE, "", -1, FALSE)
       ELSE db' = db /\ lastRes' = Res("initializeVectorStore", TRUE, "connect failed", -1, FALSE)
    /\ UNCHANGED <<table, disk>>

\* lines 56-57: the batches of a document list
NumBatches(docs, batchSize) == (Len(docs) + batchSize - 1) \div batchSize

Batch(docs, batchSize, b) ==
    SubSeq(docs, (b - 1) * batchSize + 1, Min2(b * batchSize, Len(docs)))

\* lines 56-90 from batch b on, the embedding request of batch failAt
\* failing (0: none fails); st holds the handle, the table on disk and
\* how the call ended so far
RECURSIVE AddBatches(_, _, _, _, _, _)
AddBatches(conn, docs, batchSize, b, failAt, st) ==
    IF b > NumBatches(docs, batchSize) THEN st
    ELSE IF b = failAt
         THEN [st EXCEPT !.raised = TRUE, !.error = "embedding failed"]
    ELSE IF st.table = "null" /\ conn = "null"
         THEN [st EXCEPT !.raised = TRUE, !.error = "TypeError"]
    ELSE IF st.table = "null"
         THEN AddBatches(conn, docs, batchSize, b + 1, failAt,
                  [st EXCEPT !.table = "handle",
                             !.disk = [exists |-> TRUE,
                                       rows |-> Batch(docs, batchSize, b)]])
    ELSE AddBatches(conn, docs, batchSize, b + 1, failAt,
             [st EXCEPT !.disk = [exists |-> TRUE,
                                  rows |-> st.disk.rows \o Batch(docs, batchSize, b)]])

\* lines 49-97
DoAddDocuments(docs, batchSize, failAt) ==
    LET st == AddBatches(db, docs, batchSize, 1, failAt,
                         [table |-> table, disk |-> disk, raised |-> FALSE,
                          error |-> ""])
    IN /\ table' = st.table
       /\ disk' = st.disk
       /\ lastRes' = Res("addDocuments", st.raised, st.error, -1,
                         docs /= <<>>)
       /\ UNCHANGED db

\* lines 105-138: embedOk is the outcome of the query's embedding request,
\* found the number of items the vector search returns
DoSearch(embedOk, found) ==
    LET got == GetTable(db, table, disk)
    IN /\ IF got.raised
          THEN /\ table' = table
               /\ lastRes' = Res("search", TRUE, NotInitialized, -1, FALSE)
          ELSE /\ table' = got.table
               /\ lastRes' =
                    IF got.table = "null"
                    THEN Res("search", TRUE, NoDocuments, -1, FALSE)
                    ELSE IF ~embedOk
                    THEN Res("search", TRUE, "embedding failed", -1, TRUE)
                    ELSE Res("search", FALSE, "", found, TRUE)
       /\ UNCHANGED <<db, disk>>

\* the numbers of items a vector search may return
Found == 0..Min2(TopK, Len(disk.rows))

\* lines 144-157: listOk is the outcome of the table's query
DoGetAllDocuments(listOk) ==
    LET got == GetTable(db, table, disk)
    IN /\ IF got.raised
          THEN /\ table' = table
               /\ lastRes' = Res("getAllDocuments", TRUE, NotInitialized, -1, FALSE)
          ELSE /\ table' = got.table
               /\ lastRes' =
                    IF got.table = "null"
                    THEN Res("getAllDocuments", FALSE, "", 0, FALSE)
                    ELSE IF ~listOk
                    THEN Res("getAllDocuments", TRUE, "query failed", -1, FALSE)
                    ELSE Res("getAllDocuments", FALSE, "", Len(disk.rows), FALSE)
       /\ UNCHANGED <<db, disk>>

\* line 165: if (db && table)
HasTableToDrop(conn, handle) == conn /= "null" /\ handle /= "null"

\* lines 163-174: dropOk is the outcome of dropTable
DoClearVectorStore(dropOk) ==
    /\ IF HasTableToDrop(db, table)
       THEN IF dropOk
            THEN /\ disk' = NoTable
                 /\ table' = "null"
                 /\ lastRes' = Res("clearVectorStore", FALSE, "", -1, FALSE)
            ELSE /\ UNCHANGED <<disk, table>>
                 /\ lastRes' = Res("clearVectorStore", TRUE, "drop failed", -1, FALSE)
       ELSE /\ UNCHANGED <<disk, table>>
            /\ lastRes' = Res("clearVectorStore", FALSE, "", -1, FALSE)
    /\ UNCHANGED db

\* lines 180-196: listOk is the outcome of the table's query; an error is
\* returned as {error}, not raised
DoGetStats(listOk) ==
    LET got == GetTable(db, table, disk)
    IN /\ IF got.raised
          THEN /\ table' = table
               /\ lastRes' = Res("getStats", FALSE, NotInitialized, -1, FALSE)
          ELSE /\ table' = got.table
               /\ lastRes' =
                    IF got.table = "null"
                    THEN Res("getStats", FALSE, "", 0, FALSE)
                    ELSE IF ~listOk
                    THEN Res("getStats", FALSE, "query failed", -1, FALSE)
                    ELSE Res("getStats", FALSE, "", Len(disk.rows), FALSE)
       /\ UNCHANGED <<db, disk>>

\* the process ends and a new one starts: lines 5-6 run again, the
\* database directory stays
DoRestart ==
    /\ db' = "null"
    /\ table' = "null"
    /\ lastRes' = Res("restart", FALSE, "", -1, FALSE)
    /\ UNCHANGED disk

\* the variables the store has no part in
nonStoreVars == <<chunkVars, docVars, fnVars, appVars, reported, healthSent,
                  calls, creates>>

InitializeVectorStore ==
    /\ \E ok \in BOOLEAN : DoInitializeVectorStore(ok)
    /\ UNCHANGED stored
    /\ UNCHANGED nonStoreVars

AddDocuments ==
    /\ \E docs \in UNION {[1..k -> StoreIds] : k \in 0..MaxAdd},
          batchSize \in 1..2, failAt \in 0..MaxAdd :
          /\ Len(disk.rows) + Len(docs) <= MaxRows
          /\ Len(stored) + Len(docs) <= MaxRows
          /\ failAt <= NumBatches(docs, batchSize)
          /\ DoAddDocuments(docs, batchSize, failAt)
          /\ stored' = IF lastRes'.raised THEN stored ELSE stored \o docs
    /\ UNCHANGED nonStoreVars

Search ==
    /\ \E embedOk \in BOOLEAN, found \in Found : DoSearch(embedOk, found)
    /\ UNCHANGED stored
    /\ UNCHANGED nonStoreVars

GetAllDocuments ==
    /\ \E listOk \in BOOLEAN : DoGetAllDocuments(listOk)
    /\ UNCHANGED stored
    /\ UNCHANGED nonStoreVars

ClearVectorStore ==
    /\ \E dropOk \in BOOLEAN : DoClearVectorStore(dropOk)
    /\ stored' = <<>>
    /\ UNCHANGED nonStoreVars

GetStats ==
    /\ \E listOk \in BOOLEAN : DoGetStats(listOk)
    /\ UNCHANGED stored
    /\ UNCHANGED nonStoreVars

Restart ==
    /\ DoRestart
    /\ UNCHANGED stored
    /\ UNCHANGED nonStoreVars

InitStore ==
    IdleStore /\ IdleChunkText /\ IdleDocs /\ IdleFn /\ IdleApp /\ IdleLater

NextStore ==
    \/ InitializeVectorStore
    \/ AddDocuments
    \/ Search
    \/ GetAllDocuments
    \/ ClearVectorStore
    \/ GetStats
    \/ Restart

SpecStore == InitStore /\ [][NextStore]_vars

----------------------------------------------------------------------------
(* The programs: the demo pipeline runRAG (src/src/index.js) and the HTTP  *)
(* server (src/src/query.js).  A step runs the code from one call of an    *)
(* outside service to the next place where the flow can part.  What the    *)
(* Ollama service answers is a choice of the step.                         *)

\* process.exit(1)
Exit1 == apc' = "exited" /\ exitCode' = 1

\* index.js line 16: if (!isHealthy) throw
NotHealthyNeverThrows(isHealthy) == FALSE

NotHealthy(isHealthy) == ~isHealthy

\* index.js lines 13-22; the throw of line 17 lands in the catch of
\* lines 91-94
RunRAGHealth ==
    /\ program = "runRAG"
    /\ apc = "start"
    /\ \E isHealthy \in BOOLEAN :
          /\ health' = IF isHealthy THEN "true" ELSE "false"
          /\ IF NotHealthy(isHealthy)
             THEN Exit1
             ELSE apc' = "healthy" /\ exitCode' = exitCode
    /\ UNCHANGED <<program, isInitialized, listening, connectTried,
                   embedRequested, genRequested, qIdx, asked, sent>>
    /\ UNCHANGED <<chunkVars, docVars, fnVars, storeVars, laterVars>>

\* index.js lines 24-26
RunRAGConnect ==
    /\ program = "runRAG"
    /\ apc = "healthy"
    /\ \E ok \in BOOLEAN :
          /\ DoInitializeVectorStore(ok)
          /\ IF ok THEN apc' = "connected" /\ exitCode' = exitCode ELSE Exit1
    /\ connectTried' = TRUE
    /\ UNCHANGED <<program, health, isInitialized, listening, embedRequested,
                   genRequested, qIdx, asked, sent>>
    /\ UNCHANGED <<chunkVars, docVars, fnVars, laterVars>>

\* index.js lines 29-33 and 37: each sample document is shorter than the
\* default chunk size and holds no line break, so it makes one chunk
SampleChunks == <<"doc_1_0", "doc_2_0", "doc_3_0">>

\* index.js line 42: addDocuments(chunkedDocs, 5)
IngestBatchSize == 5

\* index.js lines 28-43
RunRAGIngest ==
    /\ program = "runRAG"
    /\ apc = "connected"
    /\ \E failAt \in 0..NumBatches(SampleChunks, IngestBatchSize) :
          DoAddDocuments(SampleChunks, IngestBatchSize, failAt)
    /\ IF lastRes'.raised THEN Exit1 ELSE apc' = "querying" /\ exitCode' = exitCode
    /\ embedRequested' = (embedRequested \/ lastRes'.embedded)
    /\ UNCHANGED <<program, health, isInitialized, listening, connectTried,
                   genRequested, qIdx, asked, sent>>
    /\ UNCHANGED <<chunkVars, docVars, fnVars, laterVars>>

\* index.js lines 46-50
RunRAGQueries ==
    <<"What is machine learning?", "Tell me about neural networks",
      "How do I use Ollama?">>

\* if (false)
RetrievedNothingNever(n) == FALSE

\* index.js line 62: retrievedDocs.length === 0
RetrievedNothing(n) == n = 0

\* a loop body without the try of line 58
LeavesLoopOnError(failed) == failed

\* index.js lines 58 and 83-85: the try around the loop body catches every
\* error thrown in it, so none reaches the catch of lines 91-94
LeavesLoop(failed) == FALSE

\* index.js lines 55-88, one turn of the loop: an error of search or of
\* generateResponse is logged at lines 83-85 and the loop goes on
RunRAGQuery ==
    /\ program = "runRAG"
    /\ apc = "querying"
    /\ qIdx < Len(RunRAGQueries)
    /\ \E embedOk \in BOOLEAN, found \in Found, genOk \in BOOLEAN :
          /\ DoSearch(embedOk, found)
          /\ LET query == JsString(RunRAGQueries[qIdx + 1])
                 goesOn == ~lastRes'.raised
                              /\ ~RetrievedNothing(lastRes'.count)
                 failed == lastRes'.raised \/ (goesOn /\ ~genOk)
             IN /\ asked' = QueryRecord(query, TRUE, lastRes'.count, goesOn,
                                        goesOn, goesOn)
                /\ reported' = IF failed THEN reported + 1 ELSE reported
                /\ IF LeavesLoop(failed)
                   THEN Exit1
                   ELSE UNCHANGED <<apc, exitCode>>
    /\ qIdx' = qIdx + 1
    /\ embedRequested' = (embedRequested \/ lastRes'.embedded)
    /\ genRequested' = (genRequested \/ asked'.gen)
    /\ UNCHANGED <<program, health, isInitialized, listening, connectTried,
                   sent>>
    /\ UNCHANGED <<stored, healthSent, calls, creates>>
    /\ UNCHANGED <<chunkVars, docVars, fnVars>>

\* index.js line 90: the loop is through and the process ends by itself
RunRAGDone ==
    /\ program = "runRAG"
    /\ apc = "querying"
    /\ qIdx = Len(RunRAGQueries)
    /\ apc' = "done"
    /\ exitCode' = 0
    /\ UNCHANGED <<program, health, isInitialized, listening, connectTried,
                   embedRequested, genRequested, qIdx, asked, sent>>
    /\ UNCHANGED <<chunkVars, docVars, fnVars, storeVars, laterVars>>

\* if (false)
OllamaNotRunningIgnored(isHealthy) == FALSE

\* query.js line 25: if (!isHealthy) throw
OllamaNotRunning(isHealthy) == ~isHealthy

\* query.js lines 20-28 under start (lines 150-153); the throw of line 26
\* is thrown again at line 37 and lands in the catch of lines 160-163
InitializeRAGHealth ==
    /\ program = "server"
    /\ apc = "start"
    /\ ~isInitialized
    /\ \E isHealthy \in BOOLEAN :
          /\ health' = IF isHealthy THEN "true" ELSE "false"
          /\ IF OllamaNotRunning(isHealthy)
             THEN Exit1
             ELSE apc' = "healthy" /\ exitCode' = exitCode
    /\ UNCHANGED <<program, isInitialized, listening, connectTried,
                   embedRequested, genRequested, qIdx, asked, sent>>
    /\ UNCHANGED <<chunkVars, docVars, fnVars, storeVars, laterVars>>

\* query.js lines 30-34
InitializeRAGConnect ==
    /\ program = "server"
    /\ apc = "healthy"
    /\ \E ok \in BOOLEAN :
          /\ DoInitializeVectorStore(ok)
          /\ IF ok
             THEN apc' = "connected" /\ exitCode' = exitCode /\ isInitialized' = TRUE
             ELSE Exit1 /\ isInitialized' = isInitialized
    /\ connectTried' = TRUE
    /\ UNCHANGED <<program, health, listening, embedRequested, genRequested,
                   qIdx, asked, sent>>
    /\ UNCHANGED <<chunkVars, docVars, fnVars, laterVars>>

\* query.js lines 155-159
Listen ==
    /\ program = "server"
    /\ apc = "connected"
    /\ listening' = TRUE
    /\ apc' = "serving"
    /\ UNCHANGED <<program, health, exitCode, isInitialized, connectTried,
                   embedRequested, genRequested, qIdx, asked, sent>>
    /\ UNCHANGED <<chunkVars, docVars, fnVars, storeVars, laterVars>>

\* the query of a request body: absent, null, a number, or a string
RequestQueries ==
    {JsUndefined, JsNull, JsNumber(0), JsNumber(42), JsString(""),
     JsString(" "), JsString(" \n\t"), JsString("q"), JsString(" q ")}

\* if (!query)
InvalidQueryFalsyOnly(query) == Falsy(query)

\* query.js line 50
InvalidQuery(query) ==
    \/ Falsy(query)
    \/ query.type /= "string"
    \/ Trim(query.str) = ""

NoRelevantDocuments == "No relevant documents found for your query."

\* a response: its status, its error field, the length of its documents
\* list (-1 when it has none) and its response field
Response(status, error, docs, response) ==
    [status |-> status, error |-> error, documents |-> docs,
     response |-> response]

\* query.js line 63: retrievedDocs.length === 0
NothingRetrieved(n) == n = 0

\* query.js lines 46-99: the handler of POST /api/query for a parsed body
PostQuery ==
    /\ program = "server"
    /\ apc = "serving"
    /\ \E query \in RequestQueries, embedOk \in BOOLEAN, found \in Found,
          genOk \in BOOLEAN :
          IF InvalidQuery(query)
          THEN /\ sent' = <<Response(400, "Invalid request", -1, "")>>
               /\ asked' = QueryRecord(query, FALSE, -1, FALSE, FALSE, FALSE)
               /\ UNCHANGED <<storeVars, embedRequested, genRequested>>
          ELSE /\ DoSearch(embedOk, found)
               /\ LET goesOn == ~lastRes'.raised
                                  /\ ~NothingRetrieved(lastRes'.count)
                  IN /\ asked' = QueryRecord(query, TRUE, lastRes'.count,
                                             goesOn, goesOn, goesOn)
                     /\ sent' =
                          IF lastRes'.raised
                          THEN <<Response(500, "Query processing failed", -1, "")>>
                          ELSE IF NothingRetrieved(lastRes'.count)
                          THEN <<Response(200, "", 0, NoRelevantDocuments)>>
                          ELSE IF ~genOk
                          THEN <<Response(500, "Query processing failed", -1, "")>>
                          ELSE <<Response(200, "", lastRes'.count, "generated")>>
               /\ embedRequested' = (embedRequested \/ lastRes'.embedded)
               /\ genRequested' = (genRequested \/ asked'.gen)
    /\ UNCHANGED <<program, apc, health, exitCode, isInitialized, listening,
                   connectTried, qIdx>>
    /\ UNCHANGED <<chunkVars, docVars, fnVars, laterVars>>

\* query.js lines 105-110: the handler of GET /health
GetHealth ==
    /\ program = "server"
    /\ apc = "serving"
    /\ healthSent' = IF isInitialized THEN "true" ELSE "false"
    /\ UNCHANGED <<stored, reported, calls, creates>>
    /\ UNCHANGED <<chunkVars, docVars, fnVars, storeVars, appVars>>

\* a table an earlier run of the ingest script has left
IngestedTable == [exists |-> TRUE, rows |-> <<"d1", "d2">>]

InitApp ==
    /\ program \in {"runRAG", "server"}
    /\ apc = "start"
    /\ health = "unknown"
    /\ exitCode = -1
    /\ isInitialized = FALSE
    /\ listening = FALSE
    /\ connectTried = FALSE
    /\ embedRequested = FALSE
    /\ genRequested = FALSE
    /\ qIdx = 0
    /\ asked = NoQuery
    /\ sent = <<>>
    /\ FreshModule
    /\ disk \in {NoTable, IngestedTable}
    /\ lastRes = Res("none", FALSE, "", -1, FALSE)
    /\ IdleChunkText /\ IdleDocs /\ IdleFn /\ IdleLater

NextApp ==
    \/ RunRAGHealth
    \/ RunRAGConnect
    \/ RunRAGIngest
    \/ RunRAGQuery
    \/ RunRAGDone
    \/ InitializeRAGHealth
    \/ InitializeRAGConnect
    \/ Listen
    \/ PostQuery
    \/ GetHealth

SpecApp == InitApp /\ [][NextApp]_vars

\* runRAG is one chain of awaits and every request to Ollama ends within
\* the timeout of 60 s (ollamaService.js line 6): a turn of the loop that
\* can run does run
SpecAppFair ==
    /\ SpecApp
    /\ WF_vars(RunRAGQuery)
    /\ WF_vars(RunRAGDone)

----------------------------------------------------------------------------
(* The embedding service: generateEmbeddings of src/unnamed/part_000       *)
(* (services/ollamaService.js).  A request to /api/embed fails, or answers *)
(* without an embeddings list, or answers with one vector per input.       *)

\* ollamaService.js line 40
MaxBatchSize == 5

\* what the service does with one request
Replies == {"error", "none", "vectors"}

\* the vector the embedding model computes from a text
Vector(t) == "vec(" \o t \o ")"

\* embeddings[index] past the end of the list
UndefinedVector == "undefined"

\* the embeddings list of an answer to a request for the texts ts
Vectors(ts) == [k \in 1..Len(ts) |-> Vector(ts[k])]

\* the requests a call makes for n texts: lines 41, 44 and 59
NumRequests(n) ==
    IF n > MaxBatchSize THEN (n + MaxBatchSize - 1) \div MaxBatchSize ELSE 1

\* line 45: texts.slice(i, i + maxBatchSize) of the k-th turn
SubBatch(texts, k) ==
    SubSeq(texts, (k - 1) * MaxBatchSize + 1, Min2(k * MaxBatchSize, Len(texts)))

\* lines 44-56 from the k-th turn on: a failed request raises (line 69), an
\* answer without embeddings adds nothing (line 50), any other answer is
\* pushed (line 51)
RECURSIVE SubBatches(_, _, _, _)
SubBatches(texts, replies, k, allEmbeddings) ==
    IF k > NumRequests(Len(texts))
    THEN [raised |-> FALSE, value |-> allEmbeddings]
    ELSE IF replies[k] = "error"
    THEN [raised |-> TRUE, value |-> <<>>]
    ELSE IF replies[k] = "none"
    THEN SubBatches(texts, replies, k + 1, allEmbeddings)
    ELSE SubBatches(texts, replies, k + 1,
                    allEmbeddings \o Vectors(SubBatch(texts, k)))

\* lines 37-73
GenerateEmbeddings(texts, replies) ==
    IF Len(texts) > MaxBatchSize
    THEN SubBatches(texts, replies, 1, <<>>)
    ELSE IF replies[1] = "vectors"
    THEN [raised |-> FALSE, value |-> Vectors(texts)]
    ELSE [raised |-> TRUE, value |-> <<>>]

CallGenerateEmbeddings ==
    /\ fn = "generateEmbeddings"
    /\ fnOutcome = "pending"
    /\ LET got == GenerateEmbeddings(fnArgs.texts, fnArgs.replies)
       IN /\ fnRet' = got.value
          /\ fnOutcome' = IF got.raised THEN "Error" ELSE "returned"
    /\ UNCHANGED <<fn, fnArgs>>
    /\ UNCHANGED <<chunkVars, docVars, storeVars, appVars, laterVars>>

\* the texts t1, t2, ... of a list of n texts
TextList(n) == [k \in 1..n |-> "t" \o ToString(k)]

InitEmbed ==
    /\ fn = "generateEmbeddings"
    /\ \E n \in 0..MaxTexts :
          \E replies \in [1..NumRequests(n) -> Replies] :
             fnArgs = [texts |-> TextList(n), replies |-> replies]
    /\ fnRet = <<>>
    /\ fnOutcome = "pending"
    /\ IdleChunkText /\ IdleDocs /\ IdleRest

NextEmbed ==
    \/ CallGenerateEmbeddings

SpecEmbed == InitEmbed /\ [][NextEmbed]_vars

----------------------------------------------------------------------------
(* addDocuments await by await: src/src/services/vectorStore.js lines      *)
(* 49-97.  A call is suspended while it waits for generateEmbeddings       *)
(* (line 64), for createTable (line 76), for table.add (line 81) and for   *)
(* setImmediate (line 88); between two awaits it runs alone.  The rows of  *)
(* the table are the records of line 67-72.                                *)

\* line 49: batchSize = 10
DefaultBatchSize == 10

\* the batch sizes of the calls
BatchSizes == {2, DefaultBatchSize}

\* n documents with ids of the prefix given; every second one has no
\* sourceDoc
DocumentList(prefix, n) ==
    [k \in 1..n |->
        [id |-> prefix \o ToString(k),
         content |-> "text of " \o prefix \o ToString(k),
         sourceDoc |-> IF k % 2 = 1 THEN JsString("src-" \o prefix)
                       ELSE JsUndefined]]

\* the document lists the call c may be given
CallDocuments(c) ==
    IF c = 1 THEN {DocumentList("a", n) : n \in 0..MaxDocuments}
    ELSE {DocumentList("b", n) : n \in 0..MaxAdd}

\* line 57: documents.slice(i, i + batchSize)
BatchAt(docs, at, batchSize) ==
    SubSeq(docs, at + 1, Min2(at + batchSize, Len(docs)))

\* line 70: doc.sourceDoc || ''
SourceDoc(doc) == IF Falsy(doc.sourceDoc) THEN "" ELSE doc.sourceDoc.str

\* line 71: embeddings[index]
VectorAt(embeddings, index) ==
    IF index <= Len(embeddings) THEN embeddings[index] ELSE UndefinedVector

\* lines 67-72
Rows(batch, embeddings) ==
    [k \in 1..Len(batch) |->
        [id |-> batch[k].id,
         content |-> batch[k].content,
         sourceDoc |-> SourceDoc(batch[k]),
         vector |-> VectorAt(embeddings, k)]]

\* lines 49-64: the call starts and asks for the embeddings of its first
\* batch; with no documents the loop is not entered
StartAdd ==
    /\ \E c \in 1..2 :
          /\ calls[c].pc = "idle"
          /\ \E docs \in CallDocuments(c), batchSize \in BatchSizes :
                calls' = [calls EXCEPT ![c] =
                            [pc |-> IF docs = <<>> THEN "returned"
                                    ELSE "embedding",
                             documents |-> docs, batchSize |-> batchSize,
                             i |-> 0, data |-> <<>>]]
    /\ UNCHANGED <<stored, reported, healthSent, creates>>
    /\ UNCHANGED <<chunkVars, docVars, fnVars, storeVars, appVars>>

\* lines 64-82: generateEmbeddings is back; an error is thrown on at line
\* 95; else the rows are made and written with createTable when the module
\* holds no handle, with table.add when it holds one
EmbeddingsBack ==
    /\ \E c \in 1..2 :
          /\ calls[c].pc = "embedding"
          /\ LET call == calls[c]
                 batch == BatchAt(call.documents, call.i, call.batchSize)
                 texts == [k \in 1..Len(batch) |-> batch[k].content]
             IN \E replies \in [1..NumRequests(Len(texts)) -> Replies] :
                   LET got == GenerateEmbeddings(texts, replies)
                   IN calls' = [calls EXCEPT ![c] =
                        IF got.raised
                        THEN [call EXCEPT !.pc = "raised"]
                        ELSE [call EXCEPT
                                !.pc = IF table = "null" THEN "creating"
                                       ELSE "adding",
                                !.data = Rows(batch, got.value)]]
    /\ UNCHANGED <<stored, reported, healthSent, creates>>
    /\ UNCHANGED <<chunkVars, docVars, fnVars, storeVars, appVars>>

\* lines 84-90: the batch is written; the call waits for setImmediate when
\* documents are left, and returns when none is
Written(call) ==
    [call EXCEPT !.i = call.i + call.batchSize,
                 !.data = <<>>,
                 !.pc = IF call.i + call.batchSize < Len(call.documents)
                        THEN "yielded" ELSE "returned"]

\* lines 76-78: createTable with mode 'overwrite' is back
CreateBack ==
    /\ \E c \in 1..2, ok \in BOOLEAN :
          /\ calls[c].pc = "creating"
          /\ IF ok
             THEN /\ disk' = [exists |-> TRUE, rows |-> calls[c].data]
                  /\ table' = "handle"
                  /\ creates' = creates + 1
                  /\ calls' = [calls EXCEPT ![c] = Written(calls[c])]
             ELSE /\ calls' = [calls EXCEPT ![c].pc = "raised"]
                  /\ UNCHANGED <<disk, table, creates>>
    /\ UNCHANGED <<db, lastRes>>
    /\ UNCHANGED <<stored, reported, healthSent>>
    /\ UNCHANGED <<chunkVars, docVars, fnVars, appVars>>

\* line 81: table.add is back
AddBack ==
    /\ \E c \in 1..2, ok \in BOOLEAN :
          /\ calls[c].pc = "adding"
          /\ IF ok
             THEN /\ disk' = [exists |-> TRUE,
                              rows |-> disk.rows \o calls[c].data]
                  /\ calls' = [calls EXCEPT ![c] = Written(calls[c])]
             ELSE /\ calls' = [calls EXCEPT ![c].pc = "raised"]
                  /\ UNCHANGED disk
    /\ UNCHANGED <<db, table, lastRes>>
    /\ UNCHANGED <<stored, reported, healthSent, creates>>
    /\ UNCHANGED <<chunkVars, docVars, fnVars, appVars>>

\* lines 88 and 56-64: setImmediate is back and the next batch begins
NextBatch ==
    /\ \E c \in 1..2 :
          /\ calls[c].pc = "yielded"
          /\ calls' = [calls EXCEPT ![c].pc = "embedding"]
    /\ UNCHANGED <<stored, reported, healthSent, creates>>
    /\ UNCHANGED <<chunkVars, docVars, fnVars, storeVars, appVars>>

\* an initialized store without a documents table, and no call under way
InitAdd ==
    /\ db = "conn"
    /\ table = "null"
    /\ disk = NoTable
    /\ lastRes = Res("none", FALSE, "", -1, FALSE)
    /\ IdleLater
    /\ IdleChunkText /\ IdleDocs /\ IdleFn /\ IdleApp

NextAdd ==
    \/ StartAdd
    \/ EmbeddingsBack
    \/ CreateBack
    \/ AddBack
    \/ NextBatch

SpecAdd == InitAdd /\ [][NextAdd]_vars

----------------------------------------------------------------------------
(* Properties of chunkText *)

\* the contract's precondition: windowSize > 0 and 0 <= overlap < windowSize
ValidConfig == chunkSize > 0 /\ 0 <= overlap /\ overlap < chunkSize

Finished == pc = "done"

\* the number of characters (code points) of a string
CharLen(t) == Len(ArrayFrom(t))

\* a string with its first n characters dropped
DropChars(t, n) == Join(Slice(ArrayFrom(t), n, CharLen(t)))

\* the chunks put together again: the first as it is, every later one
\* without its first O characters
RECURSIVE ReassembleFrom(_, _, _, _)
ReassembleFrom(cs, O, k, acc) ==
    IF k > Len(cs) THEN acc
    ELSE ReassembleFrom(cs, O, k + 1,
                        acc \o (IF k = 1 THEN cs[k] ELSE DropChars(cs[k], O)))

Reassemble(cs, O) == ReassembleFrom(cs, O, 1, <<>>)

CeilDiv(a, b) == (a + b - 1) \div b

\* the closed form of the data model for a text of L characters
ExpectedCount(L, S, O) ==
    IF L = 0 THEN 0
    ELSE IF O > 0 THEN CeilDiv(Max2(L - O, 1), S - O)
    ELSE CeilDiv(L, S)

\* the k-th window (k from 0) of the canonical algorithm
CanonicalChunk(t, S, O, k) ==
    LET arr == ArrayFrom(t)
    IN Join(SubSeq(arr, k * (S - O) + 1, Min2(k * (S - O) + S, Len(arr))))

\* the k-th window reaches the end of the text
ReachesEnd(t, S, O, k) == k * (S - O) + S >= CharLen(t)

HasLineBreak(t) == \E p \in 1..Len(t) : IsLineTerminator(t[p])

\* every high unit is followed by a low unit and every low unit follows a
\* high one
WellFormed(t) ==
    \A p \in 1..Len(t) :
        /\ t[p] = HiSurrogate => (p < Len(t) /\ t[p + 1] = LoSurrogate)
        /\ t[p] = LoSurrogate => (p > 1 /\ t[p - 1] = HiSurrogate)

HasSurrogatePair(t) == \E p \in 1..Len(t) : t[p] = HiSurrogate

\* C1: for every text, S > 0 and 0 <= O < S, the chunks chunkText returns,
\* each after the first without its first O characters, concatenate to the
\* text.
C1_Reconstruction ==
    (Finished /\ textType = "string" /\ ValidConfig) =>
        /\ outcome = "returned"
        /\ Reassemble(returned, overlap) = text

\* C2: the number of chunks is ceil(max(L - O, 1) / (S - O)) for O > 0 and
\* ceil(L / S) for O = 0; the empty text gives none, any other text at
\* least one.
C2_CountFormula ==
    (Finished /\ textType = "string" /\ ValidConfig) =>
        /\ outcome = "returned"
        /\ Len(returned) = ExpectedCount(CharLen(text), chunkSize, overlap)
        /\ (text = <<>> <=> returned = <<>>)

\* C3: on both code paths the k-th chunk is the slice from k*(S-O) to
\* min(k*(S-O)+S, length), the last chunk is the first whose slice reaches
\* the end, and with O = 0 the chunks partition the text.
C3_CanonicalWindows ==
    (Finished /\ textType = "string" /\ ValidConfig) =>
        /\ outcome = "returned"
        /\ \A k \in 1..Len(returned) :
              /\ returned[k] = CanonicalChunk(text, chunkSize, overlap, k - 1)
              /\ ReachesEnd(text, chunkSize, overlap, k - 1) <=> k = Len(returned)
        /\ text /= <<>> => returned /= <<>>
        /\ overlap = 0 => Join(returned) = text

\* C4: with overlap >= windowSize or windowSize <= 0 the call ends in an
\* error and returns no list.  (Stated for the non-empty text: section 8
\* gives the empty text zero chunks for any S > 0 and O >= 0.)
C4_InvalidConfigRejected ==
    (Finished /\ textType = "string" /\ text /= <<>> /\ (overlap >= chunkSize \/ chunkSize <= 0)) =>
        outcome = "SyntaxError"

\* C5: the call terminates for every input: while the loop runs, every
\* pass moves the position forward, and the list never holds more chunks
\* than the text has positions.
C5_LoopAdvances ==
    [][(pc = "loop" /\ pc' = "loop") =>
          (i' > i /\ Len(chunks') <= Len(textArray))]_vars

\* C9: a non-empty text of at most windowSize characters comes back as
\* exactly one chunk equal to the text.
C9_SingleChunk ==
    (Finished /\ textType = "string" /\ ValidConfig /\ text /= <<>> /\ CharLen(text) <= chunkSize) =>
        /\ outcome = "returned"
        /\ returned = <<text>>

\* C10: on a text of whole characters, some of them surrogate pairs, no
\* chunk boundary falls inside a pair, and windowSize counts characters:
\* every chunk but the last holds exactly windowSize of them.  (Stated for
\* texts without line breaks, which C1 and C9 are about.)
C10_CodePoints ==
    (Finished /\ textType = "string" /\ ValidConfig /\ WellFormed(text) /\ HasSurrogatePair(text)
       /\ ~HasLineBreak(text)) =>
        /\ outcome = "returned"
        /\ \A k \in 1..Len(returned) :
              /\ WellFormed(returned[k])
              /\ k < Len(returned) => CharLen(returned[k]) = chunkSize

----------------------------------------------------------------------------
(* Properties of chunkDocuments *)

\* the records of the result cut from the document with this id, in the
\* order of the result
RecordsOf(list, id) == SelectSeq(list, LAMBDA r : r.sourceDoc = id)

ContentsOf(recs) == [k \in 1..Len(recs) |-> recs[k].content]

IdsOf(recs) == [k \in 1..Len(recs) |-> recs[k].id]

\* the documents the for-of loop is through with
Processed == 1..(docIdx - 1)

\* the place of a document in the input list
DocPos(id) == CHOOSE d \in 1..Len(documents) : documents[d].id = id

\* C6: every document is chunked with config.rag.chunkSize and
\* config.rag.chunkOverlap: its chunks equal chunkText(content, chunkSize,
\* chunkOverlap) for the configured values.
C6_UsesConfiguredSettings ==
    dpc = "done" =>
        \A d \in 1..Len(documents) :
            ContentsOf(RecordsOf(result, documents[d].id))
                = ChunkText(documents[d].content,
                            config.chunkSize, config.chunkOverlap)

\* C7: the records of one document carry the indices 0, 1, ..., n-1 in
\* the order they were emitted, the id "<document id>_<index>", the
\* document's id as source and the chunk cut at that index; no record
\* belongs to another document; a 700-character document "a" gives a_0,
\* a_1, a_2.
C7_ChunkIndices ==
    /\ \A d \in Processed :
          LET doc  == documents[d]
              recs == RecordsOf(result, doc.id)
              cs   == ChunkText(doc.content, DefaultChunkSize, DefaultOverlap)
          IN /\ Len(recs) = Len(cs)
             /\ \A k \in 1..Len(recs) :
                   /\ recs[k].chunkIdx = k - 1
                   /\ recs[k].id = doc.id \o "_" \o ToString(k - 1)
                   /\ recs[k].content = cs[k]
             /\ (doc.id = "a" /\ doc.content = Rep("a", 700))
                   => IdsOf(recs) = <<"a_0", "a_1", "a_2">>
    /\ \A p \in 1..Len(result) :
          \E d \in Processed : documents[d].id = result[p].sourceDoc

C7_Witness ==
    /\ dpc = "done"
    /\ Len(documents) = 2
    /\ documents[2] = [id |-> "a", content |-> Rep("a", 700)]
    /\ Len(RecordsOf(result, documents[1].id)) = 2
    /\ IdsOf(RecordsOf(result, "a")) = <<"a_0", "a_1", "a_2">>

\* the records stand in input-document order and, within one document, in
\* chunk order
InOrder(list) ==
    \A p, q \in 1..Len(list) :
        p < q =>
            \/ DocPos(list[p].sourceDoc) < DocPos(list[q].sourceDoc)
            \/ /\ list[p].sourceDoc = list[q].sourceDoc
               /\ list[p].chunkIdx < list[q].chunkIdx

\* C8: chunkDocuments leaves the document list, the documents and the
\* module's state (the configuration) as they were, and its records stand
\* in input-document order, then chunk order, after every step.
C8_PureAndOrdered ==
    [][/\ documents' = documents
       /\ config' = config
       /\ InOrder(result')
       /\ Len(result') >= Len(result)
       /\ SubSeq(result', 1, Len(result)) = result]_vars

C8_Witness ==
    /\ dpc = "done"
    /\ Len(documents) = 2
    /\ Len(RecordsOf(result, documents[1].id)) = 3
    /\ Len(RecordsOf(result, documents[2].id)) = 2
    /\ result[3].sourceDoc = documents[1].id
    /\ result[4].sourceDoc = documents[2].id

----------------------------------------------------------------------------
(* Properties of formatContext, buildRAGPrompt and cleanText *)

FnReturned(name) == fn = name /\ fnOutcome = "returned"

\* an item has a source document id: a non-empty string (addDocuments
\* stores '' for a document that has none)
HasSourceId(doc) == doc.sourceDoc.type = "string" /\ doc.sourceDoc.str /= ""

\* the first n blocks as the claim lays them out
RECURSIVE ExpectedContext(_, _)
ExpectedContext(docs, n) ==
    IF n = 0 THEN ""
    ELSE (IF n = 1 THEN "" ELSE ExpectedContext(docs, n - 1) \o "\n" \o "\n")
            \o "[Document " \o ToString(n) \o "]" \o "\n"
            \o docs[n].content \o "\n"
            \o "[Source: "
            \o (IF HasSourceId(docs[n]) THEN docs[n].sourceDoc.str ELSE "unknown")
            \o "]"

\* the places at which part occurs in s
Occurrences(s, part) ==
    {p \in 1..(Len(s) - Len(part) + 1) : SubSeq(s, p, p + Len(part) - 1) = part}

\* C11: formatContext renders item i (from 1, in input order) as
\* "[Document i]", newline, content, newline, "[Source: <id>]" with
\* "unknown" for a missing id, joins the blocks by one blank line, renders
\* as many blocks as items, and returns "" for no items.
C11_FormatContext ==
    FnReturned("formatContext") =>
        LET docs == fnArgs.items
        IN /\ fnRet = ExpectedContext(docs, Len(docs))
           /\ Cardinality(Occurrences(fnRet, "[Document ")) = Len(docs)
           /\ Cardinality(Occurrences(fnRet, "[Source: ")) = Len(docs)
           /\ docs = <<>> => fnRet = ""
           /\ docs = <<[content |-> "hi", sourceDoc |-> JsString("d1")]>>
                 => fnRet = "[Document 1]\nhi\n[Source: d1]"

C11_Witness ==
    /\ FnReturned("formatContext")
    /\ Len(fnArgs.items) = 2
    /\ HasSourceId(fnArgs.items[1])
    /\ fnArgs.items[2].sourceDoc = JsUndefined
    /\ Occurrences(fnRet, "[Source: unknown]") /= {}
    /\ Occurrences(fnRet, "]\n\n[Document 2]") /= {}

\* C12: for strings Q and C the prompt is the instruction text, the
\* context section with C unchanged, the line "Question: " with Q
\* unchanged, and the cue "Answer:" as its last characters, in this order.
C12_PromptLayout ==
    (FnReturned("buildRAGPrompt") /\ fnArgs.query.type = "string"
       /\ fnArgs.context.type = "string") =>
        LET Q  == fnArgs.query.str
            C  == fnArgs.context.str
            p1 == Len(Instruction)
            p2 == p1 + Len("\n\nContext:\n")
            p3 == p2 + Len(C)
            p4 == p3 + Len("\n\nQuestion: ")
            p5 == p4 + Len(Q)
        IN /\ SubSeq(fnRet, 1, p1) = Instruction
           /\ SubSeq(fnRet, p1 + 1, p2) = "\n\nContext:\n"
           /\ SubSeq(fnRet, p2 + 1, p3) = C
           /\ SubSeq(fnRet, p3 + 1, p4) = "\n\nQuestion: "
           /\ SubSeq(fnRet, p4 + 1, p5) = Q
           /\ SubSeq(fnRet, p5 + 1, Len(fnRet)) = "\n\nAnswer:"

C12_Witness ==
    /\ FnReturned("buildRAGPrompt")
    /\ fnArgs.query = JsString("Q")
    /\ fnArgs.context = JsString("[Document 1]\nhi\n[Source: d1]")
    /\ Occurrences(fnRet, "Question: Q") /= {}

\* C13: cleanText(cleanText(s)) = cleanText(s) for every string s, and
\* cleanText(s) has no two whitespace characters in a row, no line break
\* and no whitespace at either end.
C13_CleanTextIdempotent ==
    (FnReturned("cleanText") /\ fnArgs.text.type = "string") =>
        /\ (IF ReturnsEmptyString(JsString(fnRet)) THEN ""
            ELSE CleanString(fnRet)) = fnRet
        /\ \A p \in 1..(Len(fnRet) - 1) :
              ~(IsWhitespace(CharAt(fnRet, p)) /\ IsWhitespace(CharAt(fnRet, p + 1)))
        /\ Occurrences(fnRet, "\n") = {}
        /\ fnRet /= "" =>
              /\ ~IsWhitespace(CharAt(fnRet, 1))
              /\ ~IsWhitespace(CharAt(fnRet, Len(fnRet)))

C13_Witness ==
    /\ FnReturned("cleanText")
    /\ fnArgs.text = JsString("a \na")
    /\ fnRet = "a a"

\* C14 as stated: cleanText fails for no input whatever, and gives "" for
\* an empty or absent one.
C14_Total ==
    (fn = "cleanText" /\ fnOutcome /= "pending") =>
        /\ fnOutcome = "returned"
        /\ fnArgs.text \in {JsString(""), JsUndefined, JsNull} => fnRet = ""

\* C14 as amended: cleanText fails for no string and for no absent (null,
\* undefined) input, and gives "" for an empty or absent one.
C14_TotalOnStrings ==
    (fn = "cleanText" /\ fnOutcome /= "pending"
       /\ fnArgs.text.type \in {"string", "undefined", "null"}) =>
        /\ fnOutcome = "returned"
        /\ fnArgs.text \in {JsString(""), JsUndefined, JsNull} => fnRet = ""

C14_Witness ==
    /\ FnReturned("cleanText")
    /\ fnArgs.text = JsUndefined
    /\ fnRet = ""

\* C15: chunkText handed a non-string text, and buildRAGPrompt handed a
\* non-string query or context, end in an error and return nothing.
C15_NonStringRejected ==
    /\ (Finished /\ textType /= "string") => outcome /= "returned"
    /\ (fn = "buildRAGPrompt" /\ fnOutcome /= "pending"
          /\ (fnArgs.query.type /= "string" \/ fnArgs.context.type /= "string"))
          => fnOutcome /= "returned"


----------------------------------------------------------------------------
(* Properties of the vector store *)

\* the step is a call of the operation named
Called(op) == lastRes'.op = op

\* C16: after initializeVectorStore, whatever addDocuments, search, getStats
\* and restarts of the process came before, a clearVectorStore that
\* completes without error and is followed at once by getStats has getStats
\* report documentCount 0.
C16_ClearEmpties ==
    [][(/\ lastRes.op = "clearVectorStore"
        /\ ~lastRes.raised
        /\ db /= "null"
        /\ Called("getStats"))
          => lastRes'.count = 0]_vars

\* the module's handles are as they were
HandlesKept == db' = db /\ table' = table

\* the module holds no handle and the database directory holds no table
NoDocumentsTable == db /= "null" /\ table = "null" /\ ~disk.exists

\* C20: search and getAllDocuments before initializeVectorStore raise the
\* not-initialized error; search without a documents table raises the
\* no-documents error and asks for no embedding; getStats raises in neither
\* situation and reports documentCount 0 when there is no table; none of
\* these calls changes the db or table handle.
C20_FailsCleanly ==
    [][/\ ((Called("search") \/ Called("getAllDocuments")) /\ db = "null")
            => /\ lastRes'.raised
               /\ lastRes'.error = NotInitialized
               /\ ~lastRes'.embedded
               /\ HandlesKept
       /\ (Called("search") /\ NoDocumentsTable)
            => /\ lastRes'.raised
               /\ lastRes'.error = NoDocuments
               /\ ~lastRes'.embedded
               /\ HandlesKept
       /\ (Called("getStats") /\ db = "null")
            => /\ ~lastRes'.raised
               /\ HandlesKept
       /\ (Called("getStats") /\ NoDocumentsTable)
            => /\ ~lastRes'.raised
               /\ lastRes'.count = 0
               /\ lastRes'.error = ""
               /\ HandlesKept]_vars

\* a search on a connected store without a documents table has raised
C20_Witness ==
    /\ lastRes.op = "search"
    /\ lastRes.raised
    /\ lastRes.error = NoDocuments
    /\ NoDocumentsTable


----------------------------------------------------------------------------
(* Properties of the programs *)

\* the search of the query handled last returned an empty list
EmptyRetrieval == asked.searched /\ ~lastRes.raised /\ asked.found = 0

\* C17: in runRAG and in the handler of POST /api/query, a query whose search
\* returns zero items has neither formatContext nor buildRAGPrompt nor
\* generateResponse called for it, and the handler answers it with an empty
\* documents list and the fixed no-relevant-documents response.
C17_NoPromptFromEmptyRetrieval ==
    /\ (program \in {"runRAG", "server"} /\ EmptyRetrieval)
          => ~asked.fmt /\ ~asked.prompt /\ ~asked.gen
    /\ (program = "server" /\ EmptyRetrieval)
          => /\ Len(sent) = 1
             /\ sent[1].status = 200
             /\ sent[1].documents = 0
             /\ sent[1].response = "No relevant documents found for your query."

\* the handler has answered a query whose search found nothing
C17_Witness ==
    /\ program = "server"
    /\ EmptyRetrieval
    /\ lastRes.op = "search"
    /\ sent /= <<>>

\* the process has touched the store, the embedding service or the
\* generation service, or listens
HasStarted ==
    \/ connectTried
    \/ db /= "null"
    \/ lastRes.op /= "none"
    \/ embedRequested
    \/ genRequested
    \/ listening

\* C18: in runRAG and in the server's start, nothing connects to the vector
\* store, asks for an embedding or asks for a generation before
\* checkOllamaHealth has returned true; once it has returned false the
\* process has exited with status 1 without connecting to the store, adding
\* a document or listening.
C18_HealthGate ==
    /\ HasStarted => health = "true"
    /\ health = "false"
          => /\ apc = "exited"
             /\ exitCode = 1
             /\ ~HasStarted
    /\ isInitialized => health = "true"

\* the health check has failed and the process has exited
C18_Witness ==
    /\ health = "false"
    /\ exitCode = 1
    /\ program \in {"runRAG", "server"}

\* the request has no query, a query that is no string, or a query of
\* whitespace only
Unusable(query) ==
    \/ query.type /= "string"
    \/ \A p \in 1..Len(query.str) : CharAt(query.str, p) \in {" ", "\n", "\t"}

----------------------------------------------------------------------------
(* Properties of the embedding service *)

\* C21: whatever the embedding service answers, a call of generateEmbeddings
\* that returns has returned one vector for each text, in the order of the
\* texts; it never returns a list of another length.
C21_OneVectorPerText ==
    (fn = "generateEmbeddings" /\ fnOutcome = "returned")
       => /\ Len(fnRet) = Len(fnArgs.texts)
          /\ \A k \in 1..Len(fnRet) : fnRet[k] = Vector(fnArgs.texts[k])


----------------------------------------------------------------------------
(* Properties of the vector store across calls *)

\* how often the document d stands in the list
Copies(list, d) == Cardinality({k \in 1..Len(list) : list[k] = d})

\* C23: under any sequence of initializeVectorStore, addDocuments, search,
\* getStats and restarts of the process, the table holds every document that
\* a successful addDocuments has stored since clearVectorStore ran last.
C23_OnlyAdds ==
    \A d \in StoreIds : Copies(stored, d) <= Copies(disk.rows, d)


----------------------------------------------------------------------------
(* Properties of addDocuments *)

\* the rows the documents make: each with its id, content and source and
\* with the vector of its own content
ExpectedRows(docs) ==
    [k \in 1..Len(docs) |->
        [id |-> docs[k].id,
         content |-> docs[k].content,
         sourceDoc |-> IF docs[k].sourceDoc.type = "string"
                       THEN docs[k].sourceDoc.str ELSE "",
         vector |-> Vector(docs[k].content)]]

\* C22: when a call of addDocuments on a store without a table returns
\* without error and no other call runs, the table holds one row for each
\* input document, in input order, each with the id, content and source of
\* its document and the vector computed from that document's content.
C22_EveryDocumentStored ==
    (calls[1].pc = "returned" /\ calls[2].pc = "idle")
       => disk.rows = ExpectedRows(calls[1].documents)

\* the ids of the rows of the table
StoredIds == {disk.rows[k].id : k \in 1..Len(disk.rows)}

\* the ids of the documents of the call c
CallIds(c) ==
    {calls[c].documents[k].id : k \in 1..Len(calls[c].documents)}

\* C24: when two calls of addDocuments, each with documents, have run on an
\* initialized store without a table and both have returned without error,
\* however their awaits interleaved, the table holds every document of both
\* calls and createTable has run exactly once.
C24_NoLostDocuments ==
    (/\ calls[1].pc = "returned"
     /\ calls[2].pc = "returned"
     /\ calls[1].documents /= <<>>
     /\ calls[2].documents /= <<>>)
       => /\ CallIds(1) \cup CallIds(2) \subseteq StoredIds
          /\ creates = 1


----------------------------------------------------------------------------
(* Properties of the programs across steps *)

\* what ended the run was the health check, initializeVectorStore or
\* addDocuments
FailedBeforeLoop ==
    \/ health = "false"
    \/ lastRes.raised /\ lastRes.op \in {"initializeVectorStore", "addDocuments"}

\* C25: in runRAG an error of search, of the query embedding or of the
\* generation is logged and ends only the turn of its query: the queries are
\* attempted one by one in list order, each once, and the pipeline then
\* completes with status 0; status 1 comes only from the health check,
\* initializeVectorStore or addDocuments, before the first query.
C25_FailureConfined ==
    /\ []((program = "runRAG" /\ exitCode = 1)
             => (qIdx = 0 /\ FailedBeforeLoop))
    /\ []((program = "runRAG" /\ qIdx > 0)
             => /\ asked.searched
                /\ asked.query = JsString(RunRAGQueries[qIdx]))
    /\ [][program = "runRAG"
             => /\ qIdx' \in {qIdx, qIdx + 1}
                /\ (qIdx' = qIdx + 1 /\ lastRes'.raised)
                      => reported' = reported + 1]_vars
    /\ (program = "runRAG" /\ apc = "querying")
          ~> (apc = "done" /\ exitCode = 0 /\ qIdx = Len(RunRAGQueries))

\* the pipeline has completed although a query had failed
C25_Witness ==
    /\ program = "runRAG"
    /\ apc = "done"
    /\ exitCode = 0
    /\ reported > 0
    /\ qIdx = Len(RunRAGQueries)

\* C26: isInitialized is true only after checkOllamaHealth returned true and
\* initializeVectorStore completed, and stays true; the server listens only
\* after that, and never once the process has exited with status 1; every
\* /health response reports initialized true, and /api/query is served with
\* the connection to the vector store in place.
C26_ServesWhenInitialized ==
    /\ [](isInitialized
             => /\ health = "true"
                /\ db /= "null"
                /\ connectTried)
    /\ [][isInitialized => isInitialized']_vars
    /\ [](listening => (isInitialized /\ exitCode /= 1))
    /\ []((program = "server" /\ exitCode = 1)
             => (~listening /\ ~isInitialized /\ apc = "exited"))
    /\ [](healthSent /= "false")
    /\ []((program = "server" /\ sent /= <<>>) => db /= "null")

\* the server has answered /health and a query
C26_Witness ==
    /\ program = "server"
    /\ healthSent = "true"
    /\ sent /= <<>>
    /\ isInitialized

====
